---- MODULE Spec2Model ----
(***************************************************************************)
(* HEIC converter (main.go): file discovery, the bounded worker pool of    *)
(* main, and the conversion pipeline of convertHeic.                       *)
(*                                                                         *)
(* Paths are sequences of one-character strings, so that the path          *)
(* functions the code calls (filepath.Ext, filepath.Base, strings.ToLower, *)
(* strings.Replace) are computed character by character.                   *)
(***************************************************************************)
EXTENDS Integers, Sequences, FiniteSets, TLC

VARIABLES
    inputFile,      \* *inputFile: path of the single file, <<>> when not given
    inputDir,       \* *inputDir: root directory, <<>> when not given
    outputPath,     \* *outputPath, <<>> when not given
    deleteOriginal, \* *deleteOriginal
    format,         \* *format
    NumCPUs,        \* runtime.NumCPU(), the capacity of the channel done
    perIteration,   \* TRUE: each iteration of the range loop has its own `file`
                    \* (language version >= 1.22); FALSE: one `file` shared by
                    \* all iterations and read by the goroutines (1.18 .. 1.21)
    walk,           \* what filepath.Walk visits under inputDir, in walk order
    srcFiles,       \* the source files that exist on disk
    outFiles,       \* the output files that exist on disk
    mainpc,         \* position of main
    files,          \* result of FindHeicFiles
    walkErr,        \* err returned by FindHeicFiles
    loopIdx,        \* index of the current iteration of `for _, file := range files`
    wg,             \* counter of the WaitGroup
    done,           \* number of tokens in the buffered channel done
    start,          \* TRUE once the channel start is closed
    pc,             \* position of each worker goroutine
    arg,            \* the parameter `file` of each worker's convertHeic call
    result,         \* how each worker's conversion ended
    removed,        \* TRUE for a worker whose os.Remove succeeded
    releases,       \* number of `<-done` executed
    signals         \* number of wg.Done() executed by each worker

vars == <<inputFile, inputDir, outputPath, deleteOriginal, format, NumCPUs,
          perIteration, walk, srcFiles, outFiles, mainpc, files, walkErr,
          loopIdx, wg, done, start, pc, arg, result, removed, releases, signals>>

config == <<inputFile, inputDir, outputPath, deleteOriginal, format, NumCPUs,
            perIteration, walk>>

(***************************************************************************)
(* Bounds of the model.                                                    *)
(***************************************************************************)
\* largest number of files a directory of the pool model holds
MaxFiles == 2
\* largest runtime.NumCPU() of the pool model
MaxCPUs == 2
\* largest number of entries below the root in the discovery model
MaxEntries == 3

(***************************************************************************)
(* Strings.                                                                *)
(***************************************************************************)
DotHeic == <<".", "h", "e", "i", "c">>
DotHEIC == <<".", "H", "E", "I", "C">>
DotJpg == <<".", "j", "p", "g">>
DotPng == <<".", "p", "n", "g">>

\* unicode.ToLower on the letters of the model's alphabet
LowerChar(c) ==
    CASE c = "H" -> "h"
      [] c = "E" -> "e"
      [] c = "I" -> "i"
      [] c = "C" -> "c"
      [] c = "A" -> "a"
      [] OTHER -> c

\* strings.ToLower
ToLower(s) == [k \in 1..Len(s) |-> LowerChar(s[k])]

\* os.IsPathSeparator
IsPathSeparator(c) == c = "/"

\* filepath.Ext: the suffix beginning at the final dot in the final element
\* of path; empty if there is no dot
RECURSIVE ExtFrom(_, _)
ExtFrom(path, i) ==
    IF i < 1 THEN <<>>
    ELSE IF IsPathSeparator(path[i]) THEN <<>>
    ELSE IF path[i] = "." THEN SubSeq(path, i, Len(path))
    ELSE ExtFrom(path, i - 1)

Ext(path) == ExtFrom(path, Len(path))

\* strings.Replace(s, old, new, n) for one-character old and new, n >= 0
RECURSIVE Replace(_, _, _, _)
Replace(s, old, new, n) ==
    IF n = 0 \/ s = <<>> THEN s
    ELSE IF Head(s) = old THEN <<new>> \o Replace(Tail(s), old, new, n - 1)
    ELSE <<Head(s)>> \o Replace(Tail(s), old, new, n)

\* path without its trailing separators
RECURSIVE StripTrailing(_)
StripTrailing(path) ==
    IF path # <<>> /\ IsPathSeparator(path[Len(path)])
    THEN StripTrailing(SubSeq(path, 1, Len(path) - 1))
    ELSE path

\* the part of path after its last separator
RECURSIVE LastElement(_, _)
LastElement(path, i) ==
    IF i < 1 THEN path
    ELSE IF IsPathSeparator(path[i]) THEN SubSeq(path, i + 1, Len(path))
    ELSE LastElement(path, i - 1)

\* filepath.Base
Base(path) ==
    IF path = <<>> THEN <<".">>
    ELSE LET p == StripTrailing(path)
         IN  IF p = <<>> THEN <<"/">> ELSE LastElement(p, Len(p))

(***************************************************************************)
(* File discovery.  An entry of walk is one call filepath.Walk makes to    *)
(* the callback: the path visited, whether it is a directory, and whether  *)
(* the visit reports an error (err != nil).                                *)
(***************************************************************************)
Entry(p, d, e) == [path |-> p, isDir |-> d, err |-> e]

\* info.Name(): the base name of the visited path
Name(entry) == Base(entry.path)

\* the test of the callback: filepath.Ext(strings.ToLower(info.Name())) == ".heic"
IsHeicName(name) == Ext(ToLower(name)) = DotHeic

\* the callback handed to filepath.Walk, on one entry that reports no error
WalkFn(entry, heicFiles) ==
    IF IsHeicName(Name(entry)) THEN Append(heicFiles, entry.path) ELSE heicFiles

\* filepath.Walk from entry k on: the walk stops at the first error the
\* callback returns, and what was collected so far stays in heicFiles
RECURSIVE WalkFrom(_, _, _)
WalkFrom(entries, k, heicFiles) ==
    IF k > Len(entries) THEN [files |-> heicFiles, err |-> FALSE]
    ELSE IF entries[k].err THEN [files |-> heicFiles, err |-> TRUE]
    ELSE WalkFrom(entries, k + 1, WalkFn(entries[k], heicFiles))

FindHeicFiles(entries) == WalkFrom(entries, 1, <<>>)

(***************************************************************************)
(* Output name.                                                            *)
(***************************************************************************)
\* outFilename of convertHeic, before the format suffix is appended
OutFilename(file, outPath) ==
    IF outPath # <<>>
    THEN outPath \o Replace(Base(file), ".", "_", 1)
    ELSE Replace(file, ".", "_", 1)

(***************************************************************************)
(* Inputs of the pool model.                                               *)
(***************************************************************************)
Letters == <<"a", "b", "k", "m", "n">>

\* the i-th file of the directory d: d/a.heic, d/b.HEIC, d/k.heic, ...
Photo(i) ==
    <<"d", "/", Letters[((i - 1) % Len(Letters)) + 1]>>
        \o (IF i % 2 = 1 THEN DotHeic ELSE DotHEIC)

\* a walk of the directory d holding n files; with errAt in 1..n the visit of
\* the errAt-th file reports an error (the entry cannot be read)
MainWalk(n, errAt) ==
    <<Entry(<<"d">>, TRUE, FALSE)>>
        \o [i \in 1..n |-> Entry(Photo(i), FALSE, i = errAt)]

\* the regular files a walk visits
FilesOf(entries) ==
    {entries[k].path : k \in {j \in 1..Len(entries) :
                                 ~entries[j].isDir /\ ~entries[j].err}}

SingleFile == <<"a">> \o DotHeic

\* values of --format: the two supported ones and an unsupported one
Formats == {"jpeg", "png", "gif"}

\* the pool model runs one supported and one unsupported format (saveJPEG and
\* savePNG differ in the suffix only; the naming model runs all of Formats)
PoolFormats == {"jpeg", "gif"}

Workers == 1..(IF MaxFiles < 1 THEN 1 ELSE MaxFiles)

\* the state of main and of the workers right after flag.Parse and the
\* construction of done, start and wg
InitRun ==
    /\ mainpc = "begin"
    /\ files = <<>>
    /\ walkErr = FALSE
    /\ loopIdx = 0
    /\ wg = 0
    /\ done = 0
    /\ start = FALSE
    /\ outFiles = {}
    /\ pc = [w \in Workers |-> "idle"]
    /\ arg = [w \in Workers |-> <<>>]
    /\ result = [w \in Workers |-> "pending"]
    /\ removed = [w \in Workers |-> FALSE]
    /\ releases = 0
    /\ signals = [w \in Workers |-> 0]

Init ==
    /\ NumCPUs \in 1..MaxCPUs
    /\ deleteOriginal \in BOOLEAN
    /\ format \in PoolFormats
    /\ outputPath = <<>>
    /\ \/ /\ inputFile = SingleFile
          /\ inputDir = <<>>
          /\ walk = <<>>
          /\ perIteration = TRUE
          /\ srcFiles \in {{}, {inputFile}}
       \/ /\ inputFile = <<>>
          /\ inputDir = <<"d">>
          /\ \E n \in 0..MaxFiles : \E errAt \in 0..n : walk = MainWalk(n, errAt)
          /\ perIteration \in BOOLEAN
          /\ srcFiles = FilesOf(walk)
       \/ /\ inputFile = <<>>
          /\ inputDir = <<>>
          /\ walk = <<>>
          /\ perIteration = TRUE
          /\ srcFiles = {}
    /\ InitRun

(***************************************************************************)
(* main.                                                                   *)
(***************************************************************************)
\* --input_file given: wg.Add(1); done <- struct{}{}; go convertHeic(*inputFile, ...)
\* (a missing input file is reported and the run goes on)
LaunchSingle ==
    /\ mainpc = "begin"
    /\ inputFile # <<>>
    /\ done < NumCPUs
    /\ wg' = wg + 1
    /\ done' = done + 1
    /\ pc' = [pc EXCEPT ![1] = "start"]
    /\ arg' = [arg EXCEPT ![1] = inputFile]
    /\ mainpc' = "close"
    /\ UNCHANGED <<config, srcFiles, outFiles, files, walkErr, loopIdx, start,
                   result, removed, releases, signals>>

\* --input_dir given: files, err := FindHeicFiles(*inputDir); err is reported
\* and the run goes on to the loop over files
Discover ==
    /\ mainpc = "begin"
    /\ inputFile = <<>>
    /\ inputDir # <<>>
    /\ files' = FindHeicFiles(walk).files
    /\ walkErr' = FindHeicFiles(walk).err
    /\ mainpc' = "loop"
    /\ UNCHANGED <<config, srcFiles, outFiles, loopIdx, wg, done, start, pc,
                   arg, result, removed, releases, signals>>

\* Usage that goes straight to the join, past close(start)
UsageSkipsBarrier ==
    /\ mainpc = "begin"
    /\ inputFile = <<>>
    /\ inputDir = <<>>
    /\ mainpc' = "wait"
    /\ UNCHANGED <<config, srcFiles, outFiles, files, walkErr, loopIdx, wg,
                   done, start, pc, arg, result, removed, releases, signals>>

\* neither flag given: the guidance is printed
Usage ==
    /\ mainpc = "begin"
    /\ inputFile = <<>>
    /\ inputDir = <<>>
    /\ mainpc' = "close"
    /\ UNCHANGED <<config, srcFiles, outFiles, files, walkErr, loopIdx, wg,
                   done, start, pc, arg, result, removed, releases, signals>>

\* Launch that starts the goroutine past its reservation
LaunchPastReserve ==
    /\ mainpc = "loop"
    /\ loopIdx < Len(files)
    /\ loopIdx' = loopIdx + 1
    /\ wg' = wg + 1
    /\ pc' = [pc EXCEPT ![loopIdx + 1] = "call"]
    /\ UNCHANGED <<config, srcFiles, outFiles, mainpc, files, walkErr, done,
                   start, arg, result, removed, releases, signals>>

\* one iteration of `for _, file := range files`: file = files[loopIdx + 1];
\* wg.Add(1); go func() {...}()
Launch ==
    /\ mainpc = "loop"
    /\ loopIdx < Len(files)
    /\ loopIdx' = loopIdx + 1
    /\ wg' = wg + 1
    /\ pc' = [pc EXCEPT ![loopIdx + 1] = "reserve"]
    /\ UNCHANGED <<config, srcFiles, outFiles, mainpc, files, walkErr, done,
                   start, arg, result, removed, releases, signals>>

\* CloseStart that fires inside the loop, before the last launch
CloseStartEarly ==
    /\ mainpc \in {"loop", "close"}
    /\ start' = TRUE
    /\ mainpc' = "wait"
    /\ UNCHANGED <<config, srcFiles, outFiles, files, walkErr, loopIdx, wg,
                   done, pc, arg, result, removed, releases, signals>>

\* close(start), after the loop or after the single launch
CloseStart ==
    /\ \/ mainpc = "loop" /\ loopIdx = Len(files)
       \/ mainpc = "close"
    /\ start' = TRUE
    /\ mainpc' = "wait"
    /\ UNCHANGED <<config, srcFiles, outFiles, files, walkErr, loopIdx, wg,
                   done, pc, arg, result, removed, releases, signals>>

\* Wait that returns while one worker is still counted
WaitOffByOne ==
    /\ mainpc = "wait"
    /\ wg <= 1
    /\ mainpc' = "finished"
    /\ UNCHANGED <<config, srcFiles, outFiles, files, walkErr, loopIdx, wg,
                   done, start, pc, arg, result, removed, releases, signals>>

\* wg.Wait() returns; "All conversions completed." is printed
Wait ==
    /\ mainpc = "wait"
    /\ wg = 0
    /\ mainpc' = "finished"
    /\ UNCHANGED <<config, srcFiles, outFiles, files, walkErr, loopIdx, wg,
                   done, start, pc, arg, result, removed, releases, signals>>

(***************************************************************************)
(* The goroutine of the loop: func() { done <- struct{}{}; convertHeic() } *)
(***************************************************************************)
\* Reserve on a channel that never fills: the send never blocks
ReserveUnbounded(w) ==
    /\ pc[w] = "reserve"
    /\ done' = done + 1
    /\ pc' = [pc EXCEPT ![w] = "call"]
    /\ UNCHANGED <<config, srcFiles, outFiles, mainpc, files, walkErr, loopIdx,
                   wg, start, arg, result, removed, releases, signals>>

\* done <- struct{}{}: blocks while the channel holds NumCPUs tokens
Reserve(w) ==
    /\ pc[w] = "reserve"
    /\ done < NumCPUs
    /\ done' = done + 1
    /\ pc' = [pc EXCEPT ![w] = "call"]
    /\ UNCHANGED <<config, srcFiles, outFiles, mainpc, files, walkErr, loopIdx,
                   wg, start, arg, result, removed, releases, signals>>

\* the variable `file` as the goroutine of iteration w reads it
LoopVar(w) == IF perIteration THEN files[w] ELSE files[loopIdx]

\* the call convertHeic(file, ...): the argument is evaluated
Call(w) ==
    /\ pc[w] = "call"
    /\ arg' = [arg EXCEPT ![w] = LoopVar(w)]
    /\ pc' = [pc EXCEPT ![w] = "start"]
    /\ UNCHANGED <<config, srcFiles, outFiles, mainpc, files, walkErr, loopIdx,
                   wg, done, start, result, removed, releases, signals>>

(***************************************************************************)
(* convertHeic.                                                            *)
(***************************************************************************)
\* the worker goes on to position p
Goto(w, p) == pc' = [pc EXCEPT ![w] = p]

\* a step ends the conversion with outcome r and goes on to position p
Finish(w, r, p) ==
    /\ result' = [result EXCEPT ![w] = r]
    /\ Goto(w, p)

\* AwaitStart that does not wait for the channel to be closed
AwaitStartNoWait(w) ==
    /\ pc[w] = "start"
    /\ Goto(w, "ctx")
    /\ UNCHANGED <<config, srcFiles, outFiles, mainpc, files, walkErr, loopIdx,
                   wg, done, start, arg, result, removed, releases, signals>>

\* <-start
AwaitStart(w) ==
    /\ pc[w] = "start"
    /\ start
    /\ Goto(w, "ctx")
    /\ UNCHANGED <<config, srcFiles, outFiles, mainpc, files, walkErr, loopIdx,
                   wg, done, start, arg, result, removed, releases, signals>>

\* heif.NewContext(): on error, return
NewContext(w) ==
    /\ pc[w] = "ctx"
    /\ \/ Goto(w, "read") /\ UNCHANGED result
       \/ Finish(w, "ctx_err", "ret")
    /\ UNCHANGED <<config, srcFiles, outFiles, mainpc, files, walkErr, loopIdx,
                   wg, done, start, arg, removed, releases, signals>>

\* c.ReadFromFile(file): fails on a missing file, may fail on any; on error, return
ReadFromFile(w) ==
    /\ pc[w] = "read"
    /\ \/ arg[w] \in srcFiles /\ Goto(w, "handle") /\ UNCHANGED result
       \/ Finish(w, "read_err", "ret")
    /\ UNCHANGED <<config, srcFiles, outFiles, mainpc, files, walkErr, loopIdx,
                   wg, done, start, arg, removed, releases, signals>>

\* c.GetPrimaryImageHandle(): on error, return
GetPrimaryImageHandle(w) ==
    /\ pc[w] = "handle"
    /\ \/ Goto(w, "decode") /\ UNCHANGED result
       \/ Finish(w, "handle_err", "ret")
    /\ UNCHANGED <<config, srcFiles, outFiles, mainpc, files, walkErr, loopIdx,
                   wg, done, start, arg, removed, releases, signals>>

\* handle.DecodeImage(...) and img.GetImage(): on error the if-else chain is
\* left, and the function goes on to `if deleteOriginal`
DecodeImage(w) ==
    /\ pc[w] = "decode"
    /\ \/ Goto(w, "save") /\ UNCHANGED result
       \/ Finish(w, "decode_err", "delete")
       \/ Finish(w, "image_err", "delete")
    /\ UNCHANGED <<config, srcFiles, outFiles, mainpc, files, walkErr, loopIdx,
                   wg, done, start, arg, removed, releases, signals>>

\* os.WriteFile(filename, ...): creates or truncates the file, then writes;
\* an error leaves no file (it could not be opened) or a partly written one
WriteFile(filename, ok, created) ==
    outFiles' = IF ok \/ created THEN outFiles \cup {filename} ELSE outFiles

\* saveJPEG that creates the output file before it encodes
saveJPEGCreateFirst(w, filename) ==
    \/ result' = [result EXCEPT ![w] = "encode_err"] /\ WriteFile(filename, FALSE, TRUE)
    \/ \E created \in BOOLEAN :
          /\ result' = [result EXCEPT ![w] = "write_err"]
          /\ WriteFile(filename, FALSE, created)
    \/ result' = [result EXCEPT ![w] = "saved"] /\ WriteFile(filename, TRUE, TRUE)

\* saveJPEG: jpeg.Encode, then os.WriteFile; every outcome is reported and
\* the function returns to convertHeic
saveJPEG(w, filename) ==
    \/ result' = [result EXCEPT ![w] = "encode_err"] /\ UNCHANGED outFiles
    \/ \E created \in BOOLEAN :
          /\ result' = [result EXCEPT ![w] = "write_err"]
          /\ WriteFile(filename, FALSE, created)
    \/ result' = [result EXCEPT ![w] = "saved"] /\ WriteFile(filename, TRUE, TRUE)

\* savePNG: png.Encode, then os.WriteFile
savePNG(w, filename) ==
    \/ result' = [result EXCEPT ![w] = "encode_err"] /\ UNCHANGED outFiles
    \/ \E created \in BOOLEAN :
          /\ result' = [result EXCEPT ![w] = "write_err"]
          /\ WriteFile(filename, FALSE, created)
    \/ result' = [result EXCEPT ![w] = "saved"] /\ WriteFile(filename, TRUE, TRUE)

\* the else branch: outFilename and `switch format`; an unsupported format
\* is reported and the function returns
Save(w) ==
    /\ pc[w] = "save"
    /\ LET outFilename == OutFilename(arg[w], outputPath)
       IN  \/ /\ format = "jpeg"
              /\ saveJPEG(w, outFilename \o DotJpg)
              /\ Goto(w, "delete")
           \/ /\ format = "png"
              /\ savePNG(w, outFilename \o DotPng)
              /\ Goto(w, "delete")
           \/ /\ format \notin {"jpeg", "png"}
              /\ Finish(w, "format_err", "ret")
              /\ UNCHANGED outFiles
    /\ UNCHANGED <<config, srcFiles, mainpc, files, walkErr, loopIdx, wg, done,
                   start, arg, removed, releases, signals>>

\* if deleteOriginal { os.Remove(file) }: fails on a missing file, may fail
\* on any; the outcome is reported either way
Remove(w) ==
    /\ pc[w] = "delete"
    /\ \/ /\ deleteOriginal
          /\ arg[w] \in srcFiles
          /\ srcFiles' = srcFiles \ {arg[w]}
          /\ removed' = [removed EXCEPT ![w] = TRUE]
       \/ /\ deleteOriginal
          /\ UNCHANGED <<srcFiles, removed>>
       \/ /\ ~deleteOriginal
          /\ UNCHANGED <<srcFiles, removed>>
    /\ Goto(w, "release")
    /\ UNCHANGED <<config, outFiles, mainpc, files, walkErr, loopIdx, wg, done,
                   start, arg, result, releases, signals>>

\* Release that receives nothing from the channel
ReleaseKeepsToken(w) ==
    /\ pc[w] = "release"
    /\ done' = done
    /\ releases' = releases + 1
    /\ Goto(w, "ret")
    /\ UNCHANGED <<config, srcFiles, outFiles, mainpc, files, walkErr, loopIdx,
                   wg, start, arg, result, removed, signals>>

\* <-done: blocks while the channel is empty
Release(w) ==
    /\ pc[w] = "release"
    /\ done > 0
    /\ done' = done - 1
    /\ releases' = releases + 1
    /\ Goto(w, "ret")
    /\ UNCHANGED <<config, srcFiles, outFiles, mainpc, files, walkErr, loopIdx,
                   wg, start, arg, result, removed, signals>>

\* Return whose wg.Done() is not deferred: an early return skips it
ReturnWithoutDone(w) ==
    /\ pc[w] = "ret"
    /\ wg' = IF result[w] \in {"ctx_err", "read_err", "handle_err", "format_err"}
             THEN wg ELSE wg - 1
    /\ signals' = [signals EXCEPT ![w] = @ + 1]
    /\ Goto(w, "exited")
    /\ UNCHANGED <<config, srcFiles, outFiles, mainpc, files, walkErr, loopIdx,
                   done, start, arg, result, removed, releases>>

\* the function returns: the deferred wg.Done() runs
Return(w) ==
    /\ pc[w] = "ret"
    /\ wg' = wg - 1
    /\ signals' = [signals EXCEPT ![w] = @ + 1]
    /\ Goto(w, "exited")
    /\ UNCHANGED <<config, srcFiles, outFiles, mainpc, files, walkErr, loopIdx,
                   done, start, arg, result, removed, releases>>

\* the steps of convertHeic
Convert(w) ==
    \/ AwaitStart(w)
    \/ NewContext(w)
    \/ ReadFromFile(w)
    \/ GetPrimaryImageHandle(w)
    \/ DecodeImage(w)
    \/ Save(w)
    \/ Remove(w)
    \/ Release(w)
    \/ Return(w)

\* a worker goroutine of the loop: the reservation, then convertHeic
Worker(w) ==
    \/ Reserve(w)
    \/ Call(w)
    \/ Convert(w)

Next ==
    \/ LaunchSingle
    \/ Discover
    \/ Usage
    \/ Launch
    \/ CloseStart
    \/ Wait
    \/ \E w \in Workers : Worker(w)

Spec == Init /\ [][Next]_vars

\* the steps of main
Main ==
    \/ LaunchSingle
    \/ Discover
    \/ Usage
    \/ Launch
    \/ CloseStart
    \/ Wait

\* the Go scheduler runs every goroutine that can run: main and each worker
\* keep taking steps while they are not blocked
FairSpec ==
    /\ Spec
    /\ WF_vars(Main)
    /\ \A w \in Workers : WF_vars(Worker(w))

(***************************************************************************)
(* The discovery model: FindHeicFiles on the walks of a directory tree.    *)
(***************************************************************************)
\* the entries below the root d, in walk order, each with the index of its
\* parent directory in this sequence (0: the root)
Tree ==
    << [path |-> <<"d", "/", "a">> \o DotHeic, isDir |-> FALSE, parent |-> 0],
       [path |-> <<"d", "/", "b">> \o DotHEIC, isDir |-> FALSE, parent |-> 0],
       [path |-> <<"d", "/", "h", "e", "i", "c">>, isDir |-> FALSE, parent |-> 0],
       [path |-> <<"d", "/", "k", ".", "H", "e", "i", "c">>, isDir |-> FALSE, parent |-> 0],
       [path |-> <<"d", "/", "m">> \o DotHeic \o DotJpg, isDir |-> FALSE, parent |-> 0],
       [path |-> <<"d", "/", "n">> \o DotJpg, isDir |-> FALSE, parent |-> 0],
       [path |-> <<"d", "/", "s">>, isDir |-> TRUE, parent |-> 0],
       [path |-> <<"d", "/", "s", "/", "a">> \o DotHeic, isDir |-> FALSE, parent |-> 7],
       [path |-> <<"d", "/", "x">> \o DotHeic, isDir |-> TRUE, parent |-> 0],
       [path |-> <<"d", "/", "x">> \o DotHeic \o <<"/", "p">> \o DotPng,
        isDir |-> FALSE, parent |-> 9] >>

\* the sets of entries of Tree a directory can hold: at most MaxEntries of
\* them, each with its parent directory
Selections ==
    {S \in SUBSET (1..Len(Tree)) :
        /\ Cardinality(S) <= MaxEntries
        /\ \A i \in S : Tree[i].parent = 0 \/ Tree[i].parent \in S}

\* the members of S in increasing order
RECURSIVE Ascending(_)
Ascending(S) ==
    IF S = {} THEN <<>>
    ELSE LET m == CHOOSE i \in S : \A j \in S : i <= j
         IN  <<m>> \o Ascending(S \ {m})

\* the walk of the directory holding the entries S; with errAt > 0 the visit
\* of the errAt-th of them reports an error
TreeWalk(S, errAt) ==
    LET order == Ascending(S)
    IN  <<Entry(<<"d">>, TRUE, FALSE)>>
            \o [k \in 1..Len(order) |->
                   Entry(Tree[order[k]].path, Tree[order[k]].isDir, k = errAt)]

InitFind ==
    /\ NumCPUs = 1
    /\ deleteOriginal = FALSE
    /\ format = "jpeg"
    /\ outputPath = <<>>
    /\ inputFile = <<>>
    /\ inputDir = <<"d">>
    /\ perIteration = TRUE
    /\ \E S \in Selections : \E errAt \in 0..Cardinality(S) : walk = TreeWalk(S, errAt)
    /\ srcFiles = FilesOf(walk)
    /\ InitRun

NextFind == Discover

SpecFind == InitFind /\ [][NextFind]_vars

(***************************************************************************)
(* The naming model: single-file runs over source paths, output paths and  *)
(* formats.                                                                *)
(***************************************************************************)
\* directories of the source file: none, ./, v.2/ and d/
NameDirs == {<<>>, <<".", "/">>, <<"v", ".", "2", "/">>, <<"d", "/">>}

\* base names of the source file
NameBases == {<<"a">> \o DotHeic, <<"a", ".", "b">> \o DotHEIC}

NamePaths == {d \o b : d \in NameDirs, b \in NameBases}

\* values of --output_path: none, a directory without and with a trailing
\* separator
NameOutputPaths == {<<>>, <<"o">>, <<"o", "/">>}

InitName ==
    /\ NumCPUs = 1
    /\ deleteOriginal \in BOOLEAN
    /\ format \in Formats
    /\ outputPath \in NameOutputPaths
    /\ inputFile \in NamePaths
    /\ inputDir = <<>>
    /\ perIteration = TRUE
    /\ walk = <<>>
    /\ srcFiles = {inputFile}
    /\ InitRun

NextName ==
    \/ LaunchSingle
    \/ CloseStart
    \/ Wait
    \/ Convert(1)

SpecName == InitName /\ [][NextName]_vars

(***************************************************************************)
(* Properties of the pool and of the conversion pipeline.                  *)
(***************************************************************************)
\* the workers main has launched
Launched == {w \in Workers : pc[w] # "idle"}

\* a worker past `<-start` that has neither released its slot nor returned
InBody(w) == pc[w] \in {"ctx", "read", "handle", "decode", "save", "delete", "release"}

Occupancy == Cardinality({w \in Workers : InBody(w)})

\* the output file of worker w's job
OutputOf(w) ==
    OutFilename(arg[w], outputPath) \o (IF format = "png" THEN DotPng ELSE DotJpg)

\* the outputs of the jobs whose decode, encode and write all succeeded
SavedOutputs == {OutputOf(w) : w \in {v \in Workers : result[v] = "saved"}}

\* C1: at no instant are more than NumCPUs workers past the start barrier and
\* not yet past the slot release.
C1_AtMostPInBody == Occupancy <= NumCPUs

\* C1 witness: more jobs than slots, every slot's holder is in the body of
\* convertHeic and a further worker is blocked on its reservation.
C1_Witness ==
    /\ Len(files) > NumCPUs
    /\ Occupancy = NumCPUs
    /\ \E w \in Workers : pc[w] = "reserve"

\* C2: at run completion every launched job has released its slot: the number
\* of releases equals the number of jobs and the channel is empty.
C2_SlotsReleased ==
    mainpc = "finished" => (releases = Cardinality(Launched) /\ done = 0)

\* C3: the run never gets stuck before the final notice: in every state short
\* of completion some goroutine can take a step, whatever the jobs' outcomes
\* (stated for the builds whose loop variable is per iteration, where every
\* worker converts its own file).
C3_NoDeadlock == perIteration => (mainpc = "finished" \/ ENABLED Next)

\* C4: a source file is deleted only by a job whose image was decoded, encoded
\* and written, and never when the delete flag is unset.
C4_DeleteOnlyAfterSuccess ==
    \A w \in Workers : removed[w] => (deleteOriginal /\ result[w] = "saved")

\* C5: the final notice comes only after every launched worker has signalled
\* completion, every job has been launched, and each worker signals once.
C5_JoinAfterAllSignalled ==
    /\ \A w \in Workers : signals[w] <= 1
    /\ mainpc = "finished" =>
          /\ \A w \in Launched : pc[w] = "exited" /\ signals[w] = 1
          /\ inputFile # <<>> => Launched = {1}
          /\ inputFile = <<>> => Launched = 1..Len(files)

\* C5 witness: a directory run of two jobs, one converted and one failed,
\* has reached the final notice.
C5_Witness ==
    /\ mainpc = "finished"
    /\ Len(files) = 2
    /\ \E w, v \in Launched : result[w] = "saved" /\ result[v] # "saved"

\* C6: after a traversal error no worker is launched, nothing is written and
\* nothing is deleted (stated for the builds whose loop variable is per
\* iteration).
C6_AbortOnTraversalError ==
    (perIteration /\ walkErr)
        => (Launched = {} /\ outFiles = {} /\ srcFiles = FilesOf(walk))

\* C7 as claimed: at run completion the output files are exactly the outputs
\* of the jobs whose decode, encode and write all succeeded.
C7_OutputsExactlySucceeded == mainpc = "finished" => outFiles = SavedOutputs

\* C7 amended: a job that fails before the write step leaves no file; every
\* output file is the output of a job that reached the write step (its write
\* succeeded, or failed and may have left a partly written file), and the
\* output of every job whose write succeeded exists.
C7_NoOutputBeforeWrite ==
    /\ SavedOutputs \subseteq outFiles
    /\ outFiles \subseteq
          {OutputOf(w) : w \in {v \in Workers : result[v] \in {"saved", "write_err"}}}

\* C7 witness: at completion a job that failed at encode and a job that was
\* saved, with the saved job's file the only output.
C7_Witness ==
    /\ mainpc = "finished"
    /\ \E w, v \in Launched :
          /\ result[w] = "encode_err"
          /\ result[v] = "saved"
          /\ outFiles = {OutputOf(v)}
          /\ OutputOf(w) # OutputOf(v)

\* C8: a directory run with delete set in which every job was saved and no
\* delete was refused ends with one output per job, no source left and one
\* release per job.
C8_AllConvertedAndDeleted ==
    (/\ mainpc = "finished"
     /\ inputFile = <<>>
     /\ deleteOriginal
     /\ ~walkErr
     /\ \A w \in 1..Len(files) :
           result[w] = "saved" /\ (removed[w] \/ arg[w] \notin srcFiles))
    => (/\ Cardinality(outFiles) = Len(files)
        /\ srcFiles = {}
        /\ releases = Len(files))

\* C8 holds of the builds whose loop variable is per iteration.
C8_PerIteration == perIteration => C8_AllConvertedAndDeleted

(***************************************************************************)
(* Properties of discovery and of naming.                                  *)
(***************************************************************************)
\* name ends in ".heic", compared case-insensitively
EndsInHeic(name) ==
    /\ Len(name) >= Len(DotHeic)
    /\ \A k \in 1..Len(DotHeic) :
          LowerChar(name[Len(name) - Len(DotHeic) + k]) = DotHeic[k]

\* the source-format files a walk visits: the regular files whose name ends
\* in ".heic"
HeicFilesOf(entries) ==
    {entries[k].path : k \in {j \in 1..Len(entries) :
        ~entries[j].isDir /\ EndsInHeic(Name(entries[j]))}}

\* C9: a walk without error returns exactly the source-format files under the
\* directory, each once, and no other entry.
C9_ExactlyHeicFiles ==
    (mainpc = "loop" /\ ~walkErr)
        => (/\ {files[k] : k \in 1..Len(files)} = HeicFilesOf(walk)
            /\ Cardinality({files[k] : k \in 1..Len(files)}) = Len(files))

\* the directory of path, with its trailing separator
Dir(path) == SubSeq(path, 1, Len(path) - Len(Base(path)))

\* name with the dot that begins its extension replaced by an underscore
UnderscoreExt(name) ==
    LET e == Ext(name)
    IN  IF e = <<>> THEN name
        ELSE SubSeq(name, 1, Len(name) - Len(e)) \o <<"_">> \o Tail(e)

\* the suffix of the output format
Suffix == IF format = "png" THEN DotPng ELSE DotJpg

\* C10: with no output path, every file written is next to the source: the
\* source's directory, then the source's base name with its extension
\* separator replaced by an underscore, then the format suffix.
C10_OutputAdjacent ==
    outputPath = <<>>
        => \A f \in outFiles :
              f = Dir(inputFile) \o UnderscoreExt(Base(inputFile)) \o Suffix

\* C11: with an output path O, every file written is inside the directory O:
\* O, a path separator, the source's base name with its extension separator
\* replaced by an underscore, then the format suffix.
C11_OutputInsideDirectory ==
    outputPath # <<>>
        => \A f \in outFiles :
              f = StripTrailing(outputPath) \o <<"/">>
                    \o UnderscoreExt(Base(inputFile)) \o Suffix

(***************************************************************************)
(* Properties of the start barrier, the launcher and the slot channel.     *)
(***************************************************************************)
\* the job list is known and empty: a directory run that discovered no file,
\* or a run with neither input flag
NoJobs == inputFile = <<>> /\ mainpc # "begin" /\ files = <<>>

\* C12: with an empty job list no worker is launched, no slot is reserved and
\* nothing is written or deleted; the barrier is fired, the join finds the
\* counter at zero, and the run can always step on to completion.
C12_EmptyRunCompletes ==
    NoJobs =>
        /\ Launched = {}
        /\ done = 0 /\ releases = 0 /\ wg = 0
        /\ outFiles = {} /\ srcFiles = FilesOf(walk)
        /\ mainpc \in {"wait", "finished"} => start
        /\ mainpc = "finished" \/ ENABLED Next

\* C12 witness: a directory run that discovered no file has fired the barrier
\* and reached the final notice.
C12_Witness ==
    /\ inputDir # <<>>
    /\ files = <<>>
    /\ start
    /\ mainpc = "finished"

\* the jobs of the run, once the job list is known
AllJobs == IF inputFile # <<>> THEN {1} ELSE 1..Len(files)

C14_NoWorkBeforeBarrier ==
    ~start =>
        /\ \A w \in Workers :
              /\ pc[w] \in {"idle", "reserve", "call", "start"}
              /\ result[w] = "pending"
              /\ ~removed[w]
              /\ signals[w] = 0
        /\ outFiles = {}
        /\ releases = 0
        /\ inputFile = <<>> => srcFiles = FilesOf(walk)

\* C14 witness: the barrier has not fired, main is still in its loop, and a
\* worker that holds its slot is blocked on `<-start`.
C14_Witness ==
    /\ ~start
    /\ mainpc = "loop"
    /\ \E w \in Workers : pc[w] = "start"

\* the worker tasks launched and not yet finished
Unfinished == {w \in Workers : pc[w] \notin {"idle", "exited"}}

\* the workers that have reserved a slot and have neither released it nor
\* returned
Admitted == {w \in Workers : pc[w] \in {"call", "start"} \/ InBody(w)}

C16_EachFileOneWorker ==
    inputFile = <<>> =>
        /\ Launched \subseteq 1..Len(files)
        /\ mainpc \in {"wait", "finished"} => Launched = 1..Len(files)
        /\ \A w \in Launched :
              pc[w] \notin {"reserve", "call"} => arg[w] = files[w]

\* C16 holds of the builds whose loop variable is per iteration.
C16_PerIteration == perIteration => C16_EachFileOneWorker

\* the jobs fit the pool: the job list is known and holds at most NumCPUs jobs
JobsFit == mainpc # "begin" /\ Cardinality(AllJobs) <= NumCPUs

\* every launched job returned before it reached the slot release
AllFailedEarly ==
    /\ AllJobs # {}
    /\ \A w \in AllJobs :
          result[w] \in {"ctx_err", "read_err", "handle_err", "format_err"}

\* the positions of a worker, in the order its goroutine passes them
Positions ==
    <<"idle", "reserve", "call", "start", "ctx", "read", "handle", "decode",
      "save", "delete", "release", "ret", "exited">>

\* how far a worker is along its goroutine
Rank == [p \in {Positions[i] : i \in DOMAIN Positions} |->
            CHOOSE i \in DOMAIN Positions : Positions[i] = p]

\* how far main is along its body
MainRank ==
    CASE mainpc = "begin" -> 0
      [] mainpc \in {"loop", "close"} -> 1 + loopIdx
      [] mainpc = "wait" -> 2 + loopIdx
      [] OTHER -> 3 + loopIdx

\* a step moves main or a worker forward and sets no goroutine back
Advance ==
    /\ \/ mainpc' = mainpc /\ loopIdx' = loopIdx
       \/ MainRank' > MainRank
    /\ \A w \in Workers : pc'[w] = pc[w] \/ Rank[pc'[w]] > Rank[pc[w]]
    /\ pc' # pc \/ mainpc' # mainpc

\* no goroutine is blocked on the slot channel
NoneBlockedOnSlots ==
    \A w \in Workers :
        /\ pc[w] = "reserve" => done < NumCPUs
        /\ pc[w] = "release" => done > 0

\* C17: when there are at most NumCPUs jobs, neither the launcher nor a worker
\* is ever blocked on the slot channel and, short of the final notice, some
\* goroutine can always step; every step advances a goroutine along its
\* finite body and sets none back: under fair scheduling the run terminates,
\* whatever the jobs' outcomes.
C17_NeverStuckWhenJobsFit ==
    /\ [](JobsFit => (NoneBlockedOnSlots /\ (mainpc = "finished" \/ ENABLED Next)))
    /\ [][Advance]_vars

\* C17, as a liveness property of FairSpec: once the job list is known to fit
\* the pool, the run eventually reaches the final notice.
C17_TerminatesWhenJobsFit == JobsFit ~> (mainpc = "finished")

\* C17 witness: a directory run of two jobs on two slots in which both jobs
\* returned early, keeping their slots, has reached the final notice.
C17_Witness ==
    /\ mainpc = "finished"
    /\ Len(files) = 2
    /\ JobsFit
    /\ AllFailedEarly
    /\ done = 2

\* the outcomes on which convertHeic returns before it reaches `<-done`
EarlyReturns == {"ctx_err", "read_err", "handle_err", "format_err"}

\* a worker that has executed `<-done`
HasReleased(w) == pc[w] \in {"ret", "exited"} /\ result[w] \notin EarlyReturns

\* the workers that have sent to done and not received from it, those that
\* returned without receiving included
Holders == {w \in Workers : pc[w] \notin {"idle", "reserve"} /\ ~HasReleased(w)}

\* C18: the channel done holds between 0 and NumCPUs tokens, as many as there
\* are workers that reserved a slot and have not executed `<-done`; a worker
\* at `<-done` finds a token and can take its step.
C18_TokensMatchHolders ==
    /\ done \in 0..NumCPUs
    /\ done = Cardinality(Holders)
    /\ \A w \in Workers : pc[w] = "release" => (done > 0 /\ ENABLED Release(w))

\* C18 witness: one worker is at `<-done` while another has returned early
\* and kept its token, so that the channel holds two tokens.
C18_Witness ==
    /\ done = 2
    /\ \E w, v \in Workers :
          /\ pc[w] = "release"
          /\ pc[v] = "exited"
          /\ result[v] \in EarlyReturns

====
